---- MODULE Spec2Model ----
(***************************************************************************)
(* Model of the unrolled doubly linked list (src/src/alloc/linked_list)    *)
(* and of the free list built on it (src/src/alloc/free_list.rs).          *)
(*                                                                         *)
(* Memory is modelled physically.  A node is a record with its two sibling *)
(* pointers, the bounds start/end of its occupied slots and an array of    *)
(* `cap` slots; a slot holds the pair (value, *mut Location) that          *)
(* Node::insert, Node::insert_non_full, Node::append and Node::remove move *)
(* around.  Nodes and Locations are allocated from two ever growing heaps  *)
(* (`nodes`, `locs`); an id is an index into its heap and NULL is 0.       *)
(* Nothing is ever returned to the allocator: the code releases nodes and  *)
(* Locations with drop_in_place, which runs the destructor and leaves the  *)
(* allocation and its bytes in place, so a stale pointer still reads the   *)
(* old contents.                                                           *)
(*                                                                         *)
(* `fault` stands for every way a call does not return: a panic (bounds    *)
(* check, assert!, unwrap of None, arithmetic overflow), a null            *)
(* dereference, or undefined behaviour (a raw copy outside the slot array, *)
(* a write through an uninitialised Location pointer).  After a fault no   *)
(* further operation is run.                                               *)
(*                                                                         *)
(* LinkedList::new (mod.rs:67-73) leaves head and tail null, and every     *)
(* cursor operation dereferences the cursor's node (cursor.rs:222-224), so *)
(* a list exactly as built by new() faults on its first use.  The          *)
(* operations are written for the list that the field documentation        *)
(* (mod.rs:40-44, "Guaranteed to never be null"), CursorMut::new           *)
(* (cursor.rs:139-140), Node::remove (node.rs:373-376) and                 *)
(* tests.rs:23-27 describe: one that always owns a node, empty             *)
(* (Node::empty) while the list is empty.  The model starts from that      *)
(* list.  LinkedList_new keeps what new() literally builds.                *)
(*                                                                         *)
(* Node::len, Node::value_mut and Node::reference are called by the cursor *)
(* but their bodies are not part of the sources; they are modelled by what *)
(* their callers and the fields start/end require of them: the count of    *)
(* occupied slots end - start, and the bounds-checked access to the slot   *)
(* `position` after start.                                                 *)
(*                                                                         *)
(* Spec drives one LinkedList<T, N> through one cursor, beside the         *)
(* reference sequence that tests.rs compares it with.  SpecFL drives one   *)
(* FreeList through allocate and free, beside the books of its caller.     *)
(* SpecBuild fills a list the two ways tests.rs does (the loop of          *)
(* test_linear_inserts, and from_iter), for several node capacities, from  *)
(* the list new() creates as well as from the list with a placeholder.     *)
(***************************************************************************)
EXTENDS Integers, Sequences, FiniteSets, TLC

\* Node capacity `N` of the LinkedList<T, N> exercised by Spec.
N == 2

\* Number of inserts and removes a behaviour of Spec performs.
MaxOps == 5

\* std::ptr::null_mut()
NULL == 0

\* A slot that was never written (MaybeUninit::uninit()).
Uninit == [val |-> NULL, loc |-> NULL]

VARIABLES
    nodes,      \* heap of Node<T, N>
    locs,       \* heap of Location<T, N>
    head,       \* LinkedList.head
    tail,       \* LinkedList.tail
    length,     \* LinkedList.length
    node,       \* cursor: Common.node
    position,   \* cursor: Common.position
    fault,      \* a call did not return
    cap,        \* the const generic N of the list in use
    ret,        \* what the last call returned
    shadow,     \* reference sequence fed the same logical operations
    spos,       \* index in shadow of the element the cursor is logically on
    refs,       \* the Refs handed out, each with the value it was obtained for
    nOps,       \* inserts and removes performed
    last_used,  \* FreeList.last_used (NULL for None)
    fl_cap,     \* the capacity the FreeList was created with
    live,       \* allocations handed out and not freed yet: (offset, size asked)
    wellBehaved,\* every free so far freed a live allocation as it was allocated
    log,        \* the FreeList calls made so far: arguments, the Ranges the
                \* call found, the padded size it worked on, its result
    setup,      \* how many of these calls were made from the script
    script,     \* calls the behaviour makes first, in this order
    build       \* how the list was constructed, and what has filled it

listVars == <<nodes, locs, head, tail, length, node, position, fault, cap, ret>>
ghostVars == <<shadow, spos, refs, nOps>>
flVars == <<last_used, fl_cap, live, wellBehaved, log, setup, script>>
buildVars == <<build>>

----------------------------------------------------------------------------
(* The state a call works on, and what it returns.                         *)

Cur ==
    [nodes |-> nodes, locs |-> locs, head |-> head, tail |-> tail,
     length |-> length, node |-> node, position |-> position,
     fault |-> fault, cap |-> cap,
     rnode |-> NULL, rref |-> NULL, rbool |-> FALSE, rsome |-> FALSE, rval |-> NULL]

RetOf(s) ==
    [rnode |-> s.rnode, rref |-> s.rref, rbool |-> s.rbool, rsome |-> s.rsome, rval |-> s.rval]

Commit(s) ==
    /\ nodes' = s.nodes
    /\ locs' = s.locs
    /\ head' = s.head
    /\ tail' = s.tail
    /\ length' = s.length
    /\ node' = s.node
    /\ position' = s.position
    /\ fault' = s.fault
    /\ cap' = s.cap
    /\ ret' = RetOf(s)

\* The state a constructor leaves.
Load(s) ==
    /\ nodes = s.nodes
    /\ locs = s.locs
    /\ head = s.head
    /\ tail = s.tail
    /\ length = s.length
    /\ node = s.node
    /\ position = s.position
    /\ fault = s.fault
    /\ cap = s.cap
    /\ ret = RetOf(s)

Fault(s) == [s EXCEPT !.fault = TRUE]

\* `let x = v; F(x)`: v is computed once, before F uses it.
Bind(v, F(_)) == CHOOSE y \in {F(x) : x \in {v}} : TRUE

----------------------------------------------------------------------------
(* Location and Node                                                       *)

\* Location::new: a fresh Location; its pointer is left in rref.
Location_new(s, n, i) ==
    [s EXCEPT !.locs = Append(@, [node |-> n, position |-> i]),
              !.rref = Len(s.locs) + 1]

\* Node::len(): the count of occupied slots.
Node_len(s, n) == s.nodes[n].end - s.nodes[n].start

\* Node::value_mut(position): the value `position` slots after start.
Node_value_mut(s, n, p) ==
    IF p < 0 \/ p >= Node_len(s, n)
    THEN Fault(s)
    ELSE [s EXCEPT !.rval = s.nodes[n].slots[s.nodes[n].start + p + 1].val,
                   !.rsome = TRUE]

\* Node::reference(position): the Ref of the slot `position` slots after
\* start, allocating its Location when the slot has none yet.
Node_reference(s, n, p) ==
    IF p < 0 \/ p >= Node_len(s, n)
    THEN Fault(s)
    ELSE LET a == s.nodes[n].start + p
             l == s.nodes[n].slots[a + 1].loc
         IN IF l # NULL
            THEN [s EXCEPT !.rref = l, !.rsome = TRUE]
            ELSE LET t == Location_new(s, n, a)
                 IN [t EXCEPT !.nodes[n].slots[a + 1].loc = t.rref, !.rsome = TRUE]

\* Node::new(val): a node holding val in slot 0; (node, Ref) in rnode, rref.
Node_new(s, val) ==
    LET id == Len(s.nodes) + 1
        lid == Len(s.locs) + 1
    IN [s EXCEPT
          !.nodes = Append(@, [previous |-> NULL, next |-> NULL,
                               start |-> 0, end |-> 1, dropped |-> FALSE,
                               slots |-> [k \in 1..s.cap |->
                                   IF k = 1 THEN [val |-> val, loc |-> lid]
                                            ELSE Uninit]]),
          !.locs = Append(@, [node |-> id, position |-> 0]),
          !.rnode = id,
          !.rref = lid]

\* Node::empty(): a node with no value; its pointer is left in rnode.
Node_empty(s) ==
    [s EXCEPT
       !.nodes = Append(@, [previous |-> NULL, next |-> NULL,
                            start |-> 0, end |-> 0, dropped |-> FALSE,
                            slots |-> [k \in 1..s.cap |-> Uninit]]),
       !.rnode = Len(s.nodes) + 1]

\* Node::set_previous
Node_set_previous(s, n, p) ==
    LET t == [s EXCEPT !.nodes[n].previous = p]
    IN IF p # NULL THEN [t EXCEPT !.nodes[p].next = n] ELSE t

\* Node::set_next without the back link
Node_set_next_one_way(s, n, x) == [s EXCEPT !.nodes[n].next = x]

\* Node::set_next
Node_set_next(s, n, x) ==
    LET t == [s EXCEPT !.nodes[n].next = x]
    IN IF x # NULL THEN [t EXCEPT !.nodes[x].previous = n] ELSE t

\* std::ptr::copy of cnt slots inside node n, from index src to index dst
\* (memmove).  A copy that leaves the slot array is undefined behaviour.
CopySlots(s, n, src, dst, cnt) ==
    IF cnt < 0 \/ src < 0 \/ dst < 0 \/ src + cnt > s.cap \/ dst + cnt > s.cap
    THEN Fault(s)
    ELSE LET old == s.nodes[n].slots
         IN [s EXCEPT !.nodes[n].slots =
                [k \in 1..s.cap |->
                    IF k - 1 >= dst /\ k - 1 < dst + cnt
                    THEN old[k - dst + src]
                    ELSE old[k]]]

\* for (_, loc) in slots[lo..hi) { (**loc).position += d }
RECURSIVE AdjustLocs(_, _, _, _, _)
AdjustLocs(s, n, lo, hi, d) ==
    IF s.fault \/ lo >= hi
    THEN s
    ELSE LET l == s.nodes[n].slots[lo + 1].loc
         IN IF l = NULL \/ s.locs[l].position + d < 0
            THEN Fault(s)
            ELSE AdjustLocs([s EXCEPT !.locs[l].position = @ + d], n, lo + 1, hi, d)

\* for (i, (_, loc)) in new_node.iter_mut().enumerate()
\*     { (**loc).node = new_node; (**loc).position = i }
RECURSIVE RehomeLocs(_, _, _, _)
RehomeLocs(s, n, i, len) ==
    IF s.fault \/ i >= len
    THEN s
    ELSE LET l == s.nodes[n].slots[i + 1].loc
         IN IF l = NULL
            THEN Fault(s)
            ELSE RehomeLocs([s EXCEPT !.locs[l] = [node |-> n, position |-> i]],
                            n, i + 1, len)

\* Node::append(val)
Node_append(s, n, val) ==
    LET e == s.nodes[n].end
        t == Location_new(s, n, e)
    IN IF e >= s.cap
       THEN Fault(t)
       ELSE [t EXCEPT !.nodes[n].slots[e + 1] = [val |-> val, loc |-> t.rref],
                      !.nodes[n].end = e + 1,
                      !.rnode = NULL]

\* Node::insert_non_full(i, val)
Node_insert_non_full(s, n, i, val) ==
    LET st == s.nodes[n].start
        e == s.nodes[n].end
        t == Location_new(s, n, i + st)
        l == t.rref
        new_val == [val |-> val, loc |-> l]
    IN IF i = 0 /\ st # 0
       THEN \* Prepend in free space at the start of the array
            [t EXCEPT !.nodes[n].start = st - 1,
                      !.nodes[n].slots[st] = new_val,
                      !.locs[l].position = st - 1]
       ELSE IF i + st = e
       THEN \* Append as last value
            IF e >= s.cap
            THEN Fault(t)
            ELSE [t EXCEPT !.nodes[n].slots[e + 1] = new_val,
                           !.nodes[n].end = e + 1]
       ELSE IF ~(i + st <= e)
       THEN Fault(t)
       ELSE LET shift_left == st # 0 /\ i <= (e - st) \div 2
                ia == st + i
            IN IF shift_left
               THEN \* copy(values[i], values[i - 1], i); new_val is not stored
                    LET c == CopySlots(t, n, ia, ia - 1, ia)
                        u == [c EXCEPT !.nodes[n].start = st - 1]
                        hi == IF st - 1 + ia < e THEN st - 1 + ia ELSE e
                        a == AdjustLocs(u, n, st - 1, hi, -1)
                    IN IF c.fault THEN c ELSE [a EXCEPT !.rref = l]
               ELSE \* copy(values[i], values[i + 1], end - i); new_val is not stored
                    LET c == IF ia + 1 >= s.cap
                             THEN Fault(t)
                             ELSE CopySlots(t, n, ia, ia + 1, e - ia)
                        u == [c EXCEPT !.nodes[n].end = e + 1]
                        a == AdjustLocs(u, n, st + ia + 1, e + 1, 1)
                    IN IF c.fault THEN c ELSE [a EXCEPT !.rref = l]

\* Node::insert(i, val): (new node or null, Ref) in rnode, rref.
Node_insert(s, n, i, val) ==
    IF Node_len(s, n) < s.cap
    THEN [Node_insert_non_full(s, n, i, val) EXCEPT !.rnode = NULL]
    ELSE \* Split the current array by moving all following values to a new node
         LET e == s.nodes[n].end
             m == Node_empty(s)
             new_node == m.rnode
             new_node_len == e - i
             c == [m EXCEPT !.nodes[new_node].slots =
                       [k \in 1..s.cap |->
                           IF k <= new_node_len
                           THEN s.nodes[n].slots[i + k]
                           ELSE Uninit],
                     !.nodes[new_node].end = new_node_len]
             h == RehomeLocs(c, new_node, 0, new_node_len)
             t == Location_new(h, n, i)
             l == t.rref
             w == [t EXCEPT !.nodes[n].slots[i + 1] = [val |-> val, loc |-> l],
                            !.nodes[n].end = i + 1]
             x == IF w.nodes[n].next # NULL
                  THEN Node_set_previous(w, w.nodes[n].next, new_node)
                  ELSE w
             y == Node_set_next(x, n, new_node)
         IN IF new_node_len < 0 \/ i < 0 \/ i >= s.cap
            THEN Fault(s)
            ELSE IF h.fault
            THEN h
            ELSE [y EXCEPT !.rnode = new_node, !.rref = l]

\* Node::append_to_previous(val)
Node_append_to_previous(s, n, val) ==
    LET prev == s.nodes[n].previous
    IN IF prev = NULL
       THEN LET re == Node_new(s, val)
            IN [Node_set_previous(re, n, re.rnode) EXCEPT !.rnode = re.rnode]
       ELSE IF Node_len(s, prev) = s.cap
       THEN LET re == Node_new(s, val)
                a == Node_set_next(re, prev, re.rnode)
            IN Node_set_previous(a, n, re.rnode)
       ELSE [Node_append(s, prev, val) EXCEPT !.rnode = NULL]

\* Node::prepend_to_next(val)
Node_prepend_to_next(s, n, val) ==
    LET next == s.nodes[n].next
    IN IF next = NULL
       THEN LET re == Node_new(s, val)
            IN Node_set_next(re, n, re.rnode)
       ELSE IF Node_len(s, next) = s.cap
       THEN LET re == Node_new(s, val)
                a == Node_set_previous(re, next, re.rnode)
            IN Node_set_next(a, n, re.rnode)
       ELSE [Node_insert_non_full(s, next, 0, val) EXCEPT !.rnode = NULL]

\* Node::remove that always takes the value off the end of the node and
\* keeps the node
Node_remove_in_place(s, n, irel) ==
    LET this == s.nodes[n]
        i == irel + this.start
    IN IF ~(i >= 0 /\ i < this.end)
       THEN Fault(s)
       ELSE [s EXCEPT !.rval = this.slots[i + 1].val,
                      !.rref = this.slots[i + 1].loc,
                      !.rbool = FALSE,
                      !.nodes[n].end = this.end - 1]

\* Node::remove(node, i): (value, NullRef, node removed) in rval, rref, rbool.
Node_remove(s, n, irel) ==
    LET this == s.nodes[n]
        i == irel + this.start
    IN IF ~(i >= 0 /\ i < this.end)
       THEN Fault(s)
       ELSE
       LET r == [s EXCEPT !.rval = this.slots[i + 1].val,
                          !.rref = this.slots[i + 1].loc,
                          !.rbool = FALSE]
       IN IF this.end - this.start = 1
          THEN IF this.previous = NULL /\ this.next = NULL
               THEN [r EXCEPT !.nodes[n].end = 0]
               ELSE LET u == IF this.previous # NULL
                             THEN Node_set_previous(r, this.previous, this.next)
                             ELSE [r EXCEPT !.nodes[this.next].previous = NULL]
                    IN [u EXCEPT !.nodes[n].dropped = TRUE, !.rbool = TRUE]
          ELSE IF i = this.start
          THEN [r EXCEPT !.nodes[n].start = this.start + 1]
          ELSE IF i = this.end - 1
          THEN [r EXCEPT !.nodes[n].end = this.end - 1]
          ELSE IF i - this.start <= this.end - i
          THEN \* Shift all preceding values to the right
               LET start == this.start
                   copying == i - start
                   c == CopySlots(r, n, start, start + 1, copying)
                   u == [c EXCEPT !.nodes[n].start = start + 1]
               IN IF c.fault THEN c
                  ELSE AdjustLocs(u, n, start + 1, start + 1 + copying, 1)
          ELSE \* Shift all following values to the left
               LET start == i
                   copying == this.end - start
                   c == CopySlots(r, n, start + 1, start, copying)
                   u == [c EXCEPT !.nodes[n].end = this.end - 1]
                   lo == IF this.end - 1 - copying > this.start
                         THEN this.end - 1 - copying ELSE this.start
               IN IF c.fault THEN c
                  ELSE AdjustLocs(u, n, lo, this.end - 1, -1)

----------------------------------------------------------------------------
(* Cursor                                                                  *)

\* Common::next
Common_next(s) ==
    IF s.fault THEN s
    ELSE IF s.node = NULL \/ Node_len(s, s.node) < 0
    THEN Fault(s)
    ELSE IF s.position + 1 < Node_len(s, s.node)
    THEN [s EXCEPT !.position = s.position + 1, !.rbool = TRUE]
    ELSE IF s.nodes[s.node].next # NULL
    THEN [s EXCEPT !.node = s.nodes[s.node].next, !.position = 0, !.rbool = TRUE]
    ELSE [s EXCEPT !.rbool = FALSE]

\* Common::previous
Common_previous(s) ==
    IF s.fault THEN s
    ELSE IF s.position # 0
    THEN [s EXCEPT !.position = s.position - 1, !.rbool = TRUE]
    ELSE IF s.node = NULL
    THEN Fault(s)
    ELSE LET prev == s.nodes[s.node].previous
         IN IF prev # NULL
            THEN IF Node_len(s, prev) - 1 < 0
                 THEN Fault(s)
                 ELSE [s EXCEPT !.node = prev,
                                !.position = Node_len(s, prev) - 1,
                                !.rbool = TRUE]
            ELSE [s EXCEPT !.rbool = FALSE]

\* Common::seek_to_start
Common_seek_to_start(s) == [s EXCEPT !.node = s.head]

\* Common::seek_to_end
Common_seek_to_end(s) ==
    IF s.length = 0
    THEN Common_seek_to_start(s)
    ELSE IF s.tail = NULL \/ Node_len(s, s.tail) - 1 < 0
    THEN Fault(s)
    ELSE [s EXCEPT !.node = s.tail, !.position = Node_len(s, s.tail) - 1]

\* Common::reference: Some(Ref) in rsome, rref.
Common_reference(s) ==
    IF s.fault THEN s
    ELSE IF s.node = NULL \/ Node_len(s, s.node) < 0
    THEN Fault(s)
    ELSE IF Node_len(s, s.node) = 0
    THEN [s EXCEPT !.rsome = FALSE, !.rref = NULL]
    ELSE Node_reference(s, s.node, s.position)

\* CursorMut::value: Some(value) in rsome, rval.
CursorMut_value(s) ==
    IF s.fault THEN s
    ELSE IF s.node = NULL \/ Node_len(s, s.node) < 0
    THEN Fault(s)
    ELSE IF Node_len(s, s.node) = 0
    THEN [s EXCEPT !.rsome = FALSE, !.rval = NULL]
    ELSE Node_value_mut(s, s.node, s.position)

\* CursorMut::insert_before
CursorMut_insert_before(s0, val) ==
    LET s == [s0 EXCEPT !.length = @ + 1]
    IN IF s.node = NULL \/ Node_len(s, s.node) < 0
       THEN Fault(s)
       ELSE IF Node_len(s, s.node) = 0
       THEN Node_append([s EXCEPT !.position = 0], s.node, val)
       ELSE IF s.position = 0 /\ Node_len(s, s.node) = s.cap
       THEN \* Append to previous node
            LET r == Node_append_to_previous(s, s.node, val)
            IN IF ~r.fault /\ r.head = r.node
               THEN [r EXCEPT !.head = r.rnode]
               ELSE r
       ELSE \* Insert into current node and possibly split it
            LET r == Node_insert(s, s.node, s.position, val)
                t == IF r.rnode # NULL /\ r.tail = r.node
                     THEN [r EXCEPT !.tail = r.rnode]
                     ELSE r
            IN IF r.fault
               THEN r
               ELSE [Common_next(t) EXCEPT !.rref = r.rref, !.rbool = FALSE]

\* CursorMut::insert_after
CursorMut_insert_after(s0, val) ==
    LET s == [s0 EXCEPT !.length = @ + 1]
    IN IF s.node = NULL \/ Node_len(s, s.node) < 0
       THEN Fault(s)
       ELSE IF Node_len(s, s.node) = 0
       THEN Node_append([s EXCEPT !.position = 0], s.node, val)
       ELSE IF Node_len(s, s.node) = s.cap /\ s.position = s.cap - 1
       THEN \* Prepend to next node
            LET r == Node_prepend_to_next(s, s.node, val)
            IN IF ~r.fault /\ r.rnode # NULL /\ r.node = r.tail
               THEN [r EXCEPT !.tail = r.rnode]
               ELSE r
       ELSE \* Inserts into existing node, possibly splitting it
            LET r == Node_insert(s, s.node, s.position + 1, val)
            IN IF ~r.fault /\ r.rnode # NULL /\ r.tail = r.node
               THEN [r EXCEPT !.tail = r.rnode]
               ELSE r

\* CursorMut::remove: Some((value, NullRef)) in rsome, rval, rref.
CursorMut_remove(s0) ==
    IF s0.length = 0
    THEN [s0 EXCEPT !.rsome = FALSE]
    ELSE LET s == [s0 EXCEPT !.length = @ - 1]
             to_remove == [node |-> s.node, position |-> s.position]
             p == Common_previous(s)
             q == IF ~p.fault /\ ~p.rbool THEN Common_next(p) ELSE p
             r == Node_remove(q, to_remove.node, to_remove.position)
             h == IF r.rbool /\ r.head = to_remove.node
                  THEN [r EXCEPT !.head = r.node]
                  ELSE r
             t == IF h.rbool /\ h.tail = to_remove.node
                  THEN [h EXCEPT !.tail = h.node]
                  ELSE h
         IN IF q.fault THEN q
            ELSE IF r.fault THEN r
            ELSE [t EXCEPT !.rsome = TRUE, !.rbool = FALSE]

\* PartialEq for Ref: two Refs are equal when they hold the same Location
\* pointer.
Ref_eq(a, b) == a = b

\* PartialEq<Ref> for NullRef / PartialEq<NullRef> for Ref: the NullRef is
\* compared as the Ref it wraps.
NullRef_eq(null, ref) == Ref_eq(null, ref)

\* Ref::cursor_mut
Ref_cursor_mut(s, ref) ==
    [s EXCEPT !.node = s.locs[ref].node, !.position = s.locs[ref].position]

----------------------------------------------------------------------------
(* LinkedList                                                              *)

\* LinkedList::new as written: both pointers null.
LinkedList_new(n) ==
    [nodes |-> <<>>, locs |-> <<>>, head |-> NULL, tail |-> NULL, length |-> 0,
     node |-> NULL, position |-> 0, fault |-> FALSE, cap |-> n,
     rnode |-> NULL, rref |-> NULL, rbool |-> FALSE, rsome |-> FALSE, rval |-> NULL]

\* The empty list that owns its one empty node.
LinkedList_empty(n) ==
    LET e == Node_empty(LinkedList_new(n))
    IN [e EXCEPT !.head = e.rnode, !.tail = e.rnode, !.rnode = NULL]

\* `list` tells the two apart; `by` names what has filled the list since.
AsWritten == [list |-> "new", by |-> "none"]
Placeholder == [list |-> "placeholder", by |-> "none"]

\* LinkedList::cursor_mut
LinkedList_cursor_mut(s) == [s EXCEPT !.node = s.head, !.position = 0]

\* LinkedList::len
LinkedList_len(s) == s.length

\* FromIterator::from_iter, `ll` being the list it creates first:
\* c.insert_after(val); c.next() for every val of iter.
RECURSIVE LinkedList_from_iter_loop(_, _)
LinkedList_from_iter_loop(c, iter) ==
    IF iter = <<>> \/ c.fault
    THEN c
    ELSE Bind(CursorMut_insert_after(c, Head(iter)), LAMBDA i :
         Bind(IF i.fault THEN i ELSE Common_next(i), LAMBDA n :
         LinkedList_from_iter_loop(n, Tail(iter))))

LinkedList_from_iter(ll, iter) ==
    LinkedList_from_iter_loop(LinkedList_cursor_mut(ll), iter)

\* IterMut<A>::next driven to exhaustion: the values an iterator yields.
\* `ok` is false when the iteration faults or does not end within `fuel`.
RECURSIVE IterMut_rest(_, _, _, _)
IterMut_rest(c, forward, acc, fuel) ==
    IF fuel = 0
    THEN [ok |-> FALSE, seq |-> acc]
    ELSE Bind(IF forward THEN Common_next(c) ELSE Common_previous(c), LAMBDA a :
         Bind(CursorMut_value(a), LAMBDA v :
         IF a.fault THEN [ok |-> FALSE, seq |-> acc]
         ELSE IF ~a.rbool THEN [ok |-> TRUE, seq |-> acc]
         ELSE IF v.fault THEN [ok |-> FALSE, seq |-> acc]
         ELSE IF ~v.rsome THEN [ok |-> TRUE, seq |-> acc]
         ELSE Bind(Append(acc, v.rval), LAMBDA more :
              IterMut_rest(a, forward, more, fuel - 1))))

IterMut_collect(c0, forward, fuel) ==
    Bind(c0, LAMBDA c :
    Bind(CursorMut_value(c), LAMBDA v :
    IF c.fault \/ v.fault THEN [ok |-> FALSE, seq |-> <<>>]
    ELSE IF ~v.rsome THEN [ok |-> TRUE, seq |-> <<>>]
    ELSE IterMut_rest(c, forward, <<v.rval>>, fuel)))

\* More steps than any list of a behaviour has values.
Fuel == 2 * MaxOps + 4

\* LinkedList::iter_mut, collected
LinkedList_iter_mut(s) ==
    IterMut_collect(LinkedList_cursor_mut(s), TRUE, Fuel)

\* LinkedList::iter_mut_reverse, collected
LinkedList_iter_mut_reverse(s) ==
    IterMut_collect(Common_seek_to_end(LinkedList_cursor_mut(s)), FALSE, Fuel)

\* tests.rs validate: count the positions a cursor visits from the head.
RECURSIVE CountNext(_, _, _)
CountNext(c, n, fuel) ==
    IF fuel = 0 THEN -1
    ELSE LET a == Common_next(c)
         IN IF a.fault THEN -1
            ELSE IF a.rbool THEN CountNext(a, n + 1, fuel - 1)
            ELSE n

Validate_iterations(s) ==
    LET c == LinkedList_cursor_mut(s)
        v == CursorMut_value(c)
    IN IF v.fault THEN -1
       ELSE CountNext(c, IF v.rsome THEN 1 ELSE 0, Fuel)

\* tests.rs validate: the walk over the nodes from the head by next pointers.
\* `linked` is false when one of the two assertions on the sibling pointers
\* fails on the way, `ended` when the walk does not reach a null next pointer
\* within `fuel`; `node_length` is the sum of the lengths of the nodes visited.
RECURSIVE Validate_walk(_, _, _, _, _, _)
Validate_walk(s, n, prev, linked, node_length, fuel) ==
    IF n = NULL THEN [linked |-> linked, ended |-> TRUE, node_length |-> node_length]
    ELSE IF fuel = 0 THEN [linked |-> FALSE, ended |-> FALSE, node_length |-> node_length]
    ELSE Validate_walk(s, s.nodes[n].next, n,
                       /\ linked
                       /\ prev # NULL => s.nodes[prev].next = n
                       /\ s.nodes[n].previous = prev,
                       node_length + Node_len(s, n), fuel - 1)

Validate_nodes(s) == Validate_walk(s, s.head, NULL, TRUE, 0, Fuel)

----------------------------------------------------------------------------
(* The reference sequence (std::collections::LinkedList in tests.rs) and   *)
(* the position in it of the element the cursor is on.                     *)

InsertAt(seq, i, v) ==
    [k \in 1..(Len(seq) + 1) |->
        IF k < i THEN seq[k] ELSE IF k = i THEN v ELSE seq[k - 1]]

RemoveAt(seq, i) ==
    [k \in 1..(Len(seq) - 1) |-> IF k < i THEN seq[k] ELSE seq[k + 1]]

Reverse(seq) == [k \in 1..Len(seq) |-> seq[Len(seq) + 1 - k]]

Elems(seq) == {seq[k] : k \in 1..Len(seq)}

IndexOf(seq, v) == CHOOSE k \in 1..Len(seq) : seq[k] = v

----------------------------------------------------------------------------
(* Spec: one list of node capacity N and its one cursor, driven by every   *)
(* cursor operation.                                                       *)

Init ==
    /\ Load(LinkedList_cursor_mut(LinkedList_empty(N)))
    /\ shadow = <<>>
    /\ spos = 0
    /\ refs = {}
    /\ nOps = 0
    /\ last_used = NULL
    /\ fl_cap = 0
    /\ live = <<>>
    /\ wellBehaved = TRUE
    /\ log = <<>>
    /\ setup = 0
    /\ script = <<>>
    /\ build = Placeholder

\* c.next()
Next_ ==
    /\ ~fault
    /\ UNCHANGED <<flVars, buildVars>>
    /\ Commit(Common_next(Cur))
    /\ spos' = IF spos < Len(shadow) THEN spos + 1 ELSE spos
    /\ UNCHANGED <<shadow, refs, nOps>>

\* c.previous()
Previous ==
    /\ ~fault
    /\ UNCHANGED <<flVars, buildVars>>
    /\ Commit(Common_previous(Cur))
    /\ spos' = IF spos > 1 THEN spos - 1 ELSE spos
    /\ UNCHANGED <<shadow, refs, nOps>>

\* c.seek_to_start()
SeekToStart ==
    /\ ~fault
    /\ UNCHANGED <<flVars, buildVars>>
    /\ Commit(Common_seek_to_start(Cur))
    /\ spos' = IF Len(shadow) > 0 THEN 1 ELSE 0
    /\ UNCHANGED <<shadow, refs, nOps>>

\* c.seek_to_end()
SeekToEnd ==
    /\ ~fault
    /\ UNCHANGED <<flVars, buildVars>>
    /\ Commit(Common_seek_to_end(Cur))
    /\ spos' = Len(shadow)
    /\ UNCHANGED <<shadow, refs, nOps>>

\* c.value()
Value ==
    /\ ~fault
    /\ UNCHANGED <<flVars, buildVars>>
    /\ Commit(CursorMut_value(Cur))
    /\ UNCHANGED <<shadow, spos, refs, nOps>>

\* c.reference(): the caller stores the Ref with the value it is on.
Reference ==
    /\ ~fault
    /\ UNCHANGED <<flVars, buildVars>>
    /\ LET v == CursorMut_value(Cur)
           r == Common_reference(Cur)
       IN /\ Commit(r)
          /\ refs' = IF ~r.fault /\ r.rsome /\ ~v.fault /\ v.rsome
                     THEN refs \cup {[val |-> v.rval, ref |-> r.rref]}
                     ELSE refs
    /\ UNCHANGED <<shadow, spos, nOps>>

\* c.insert_before(v) of a value not inserted before
InsertBefore ==
    /\ ~fault
    /\ UNCHANGED <<flVars, buildVars>>
    /\ nOps < MaxOps
    /\ LET v == nOps + 1
           r == CursorMut_insert_before(Cur, v)
       IN /\ Commit(r)
          /\ refs' = IF r.fault THEN refs ELSE refs \cup {[val |-> v, ref |-> r.rref]}
          /\ shadow' = IF spos = 0 THEN <<v>> ELSE InsertAt(shadow, spos, v)
          /\ spos' = spos + 1
    /\ nOps' = nOps + 1

\* c.insert_after(v) of a value not inserted before
InsertAfter ==
    /\ ~fault
    /\ UNCHANGED <<flVars, buildVars>>
    /\ nOps < MaxOps
    /\ LET v == nOps + 1
           r == CursorMut_insert_after(Cur, v)
       IN /\ Commit(r)
          /\ refs' = IF r.fault THEN refs ELSE refs \cup {[val |-> v, ref |-> r.rref]}
          /\ shadow' = IF spos = 0 THEN <<v>> ELSE InsertAt(shadow, spos + 1, v)
          /\ spos' = IF spos = 0 THEN 1 ELSE spos
    /\ nOps' = nOps + 1

\* c.remove(); the caller discards every Ref equal to the returned NullRef.
Remove ==
    /\ ~fault
    /\ UNCHANGED <<flVars, buildVars>>
    /\ nOps < MaxOps
    /\ LET r == CursorMut_remove(Cur)
       IN /\ Commit(r)
          /\ refs' = IF ~r.fault /\ r.rsome
                     THEN {p \in refs : p.ref # r.rref /\ p.val # r.rval}
                     ELSE refs
    /\ shadow' = IF spos = 0 THEN shadow ELSE RemoveAt(shadow, spos)
    /\ spos' = IF spos > 1 THEN spos - 1 ELSE IF Len(shadow) > 1 THEN 1 ELSE 0
    /\ nOps' = nOps + 1

\* ref.cursor_mut(&mut list) with a stored Ref of a value still in the list
Reenter ==
    /\ ~fault
    /\ UNCHANGED <<flVars, buildVars>>
    /\ \E p \in refs :
          /\ p.val \in Elems(shadow)
          /\ Commit(Ref_cursor_mut(Cur, p.ref))
          /\ spos' = IndexOf(shadow, p.val)
    /\ UNCHANGED <<shadow, refs, nOps>>

Next ==
    \/ Next_
    \/ Previous
    \/ SeekToStart
    \/ SeekToEnd
    \/ Value
    \/ Reference
    \/ InsertBefore
    \/ InsertAfter
    \/ Remove
    \/ Reenter

vars == <<listVars, ghostVars, flVars, buildVars>>

Spec == Init /\ [][Next]_vars

----------------------------------------------------------------------------
(* FreeList (src/src/alloc/free_list.rs): a LinkedList<Range, 8> of free   *)
(* Ranges and the Ref of the Range last allocated from.  A Range is the    *)
(* record [offset, size].  A FreeList call works on                        *)
(* [s, last_used, res]: the list, FreeList.last_used and what the call     *)
(* returns.                                                                *)

\* The N of LinkedList<Range, 8>
FreeListN == 8

\* const WORD: usize = std::mem::size_of::<usize>() on a 64 bit target
WORD == 8

\* AllocationResult and Result<(), &'static str>; Faulted when the call
\* does not return.
Allocated(off) == [kind |-> "Allocated", n |-> off]
NotFound(max) == [kind |-> "NotFound", n |-> max]
FreeOk == [kind |-> "Ok", n |-> 0]
FreeErr == [kind |-> "Err", n |-> 0]
Faulted == [kind |-> "Fault", n |-> 0]
NoResult == [kind |-> "None", n |-> 0]

FL(s, lu, res) ==
    [s |-> s, last_used |-> lu, res |-> IF s.fault THEN Faulted ELSE res]

\* Option<Ref> left by Common::reference, as stored in last_used
SomeRef(r) == IF r.rsome THEN r.rref ELSE NULL

\* A pad_size that leaves the size as asked
FreeList_pad_size_unpadded(size) == size

\* A pad_size that pads to the next multiple of half a word
FreeList_pad_size_half_word(size) == size + ((WORD \div 2) - (size % (WORD \div 2)))

\* FreeList::pad_size
FreeList_pad_size(size) == size + (WORD - (size % WORD))

\* A Range::allocate that shrinks the Range and leaves its offset
Range_allocate_in_place(c, size) ==
    LET a == c.nodes[c.node].start + c.position + 1
        range == c.nodes[c.node].slots[a].val
    IN [c EXCEPT !.nodes[c.node].slots[a].val =
                     [offset |-> range.offset, size |-> range.size - size],
                 !.rval = range.offset]

\* Range::allocate on the Range under the cursor (the &mut Range that
\* CursorMut::value returned); the allocation's offset is left in rval.
Range_allocate(c, size) ==
    LET a == c.nodes[c.node].start + c.position + 1
        range == c.nodes[c.node].slots[a].val
    IN [c EXCEPT !.nodes[c.node].slots[a].val =
                     [offset |-> range.offset + size, size |-> range.size - size],
                 !.rval = range.offset]

\* FreeList::new
FreeList_new(capacity) ==
    Bind(LinkedList_cursor_mut(LinkedList_empty(FreeListN)), LAMBDA c :
    Bind(CursorMut_insert_after(c, [offset |-> 0, size |-> capacity]), LAMBDA i :
    Bind(Common_reference(i), LAMBDA r :
    FL(r, SomeRef(r), NoResult))))

\* Range depleted, in a first-fit loop that always forgets last_used
FreeList_allocate_exact_clearing(c, lu, range) ==
    Bind(Common_reference(c), LAMBDA r :
    Bind(CursorMut_remove(r), LAMBDA d :
    FL(d, NULL, Allocated(range.offset))))

\* Range depleted, in the first-fit loop: forget last_used when it is the
\* Ref of the Range, and remove the Range.
FreeList_allocate_exact(c, lu, range) ==
    Bind(Common_reference(c), LAMBDA r :
    Bind(CursorMut_remove(r), LAMBDA d :
    FL(d, IF lu # NULL /\ r.rsome /\ lu = r.rref THEN NULL ELSE lu,
       Allocated(range.offset))))

\* A first-fit loop that remembers every Range it passes over in last_used
RECURSIVE FreeList_allocate_scan_marking(_, _, _, _, _)
FreeList_allocate_scan_marking(c, lu, size, max_size, fuel) ==
    Bind(CursorMut_value(c), LAMBDA v :
    IF fuel = 0 \/ v.fault
    THEN FL(Fault(c), lu, Faulted)
    ELSE IF ~v.rsome
    THEN FL(c, lu, NotFound(0))
    ELSE
    Bind(IF max_size < v.rval.size THEN v.rval.size ELSE max_size, LAMBDA m :
    IF v.rval.size > size
    THEN Bind(Common_reference(c), LAMBDA r :
         Bind(Range_allocate(r, size), LAMBDA a :
         FL(a, SomeRef(r), Allocated(v.rval.offset))))
    ELSE IF v.rval.size = size
    THEN FreeList_allocate_exact(c, lu, v.rval)
    ELSE Bind(Common_reference(c), LAMBDA r :
         Bind(Common_next(r), LAMBDA x :
         IF x.fault
         THEN FL(x, SomeRef(r), Faulted)
         ELSE IF ~x.rbool
         THEN FL(x, SomeRef(r), NotFound(m))
         ELSE FreeList_allocate_scan_marking(x, SomeRef(r), size, m, fuel - 1)))))

\* The first-fit loop of FreeList::allocate.  A loop that has not ended
\* after `fuel` rounds is one that never ends.
RECURSIVE FreeList_allocate_scan(_, _, _, _, _)
FreeList_allocate_scan(c, lu, size, max_size, fuel) ==
    Bind(CursorMut_value(c), LAMBDA v :
    IF fuel = 0 \/ v.fault
    THEN FL(Fault(c), lu, Faulted)
    ELSE IF ~v.rsome
    THEN FL(c, lu, NotFound(0))
    ELSE
    Bind(IF max_size < v.rval.size THEN v.rval.size ELSE max_size, LAMBDA m :
    IF v.rval.size > size
    THEN \* Still some space left in the range
         Bind(Common_reference(c), LAMBDA r :
         Bind(Range_allocate(r, size), LAMBDA a :
         FL(a, SomeRef(r), Allocated(v.rval.offset))))
    ELSE IF v.rval.size = size
    THEN \* Range depleted
         FreeList_allocate_exact(c, lu, v.rval)
    ELSE Bind(Common_next(c), LAMBDA x :
         IF x.fault
         THEN FL(x, lu, Faulted)
         ELSE IF ~x.rbool
         THEN FL(x, lu, NotFound(m))
         ELSE FreeList_allocate_scan(x, lu, size, m, fuel - 1))))

\* The hot path of FreeList::allocate; rbool tells whether it returned.
FreeList_allocate_hot(f, size) ==
    Bind(Ref_cursor_mut(f.s, f.last_used), LAMBDA c :
    Bind(CursorMut_value(c), LAMBDA v :
    IF v.fault \/ ~v.rsome
    THEN [FL(Fault(c), f.last_used, Faulted) EXCEPT !.s.rbool = TRUE]
    ELSE IF v.rval.size > size
    THEN \* Still some space left in the range
         Bind(Range_allocate(c, size), LAMBDA a :
         [FL(a, f.last_used, Allocated(v.rval.offset)) EXCEPT !.s.rbool = TRUE])
    ELSE IF v.rval.size = size
    THEN \* Range depleted
         Bind(CursorMut_remove(c), LAMBDA d :
         [FL(d, NULL, Allocated(v.rval.offset)) EXCEPT !.s.rbool = TRUE])
    ELSE [f EXCEPT !.s.rbool = FALSE]))

\* FreeList::allocate
FreeList_allocate(f, size0) ==
    Bind(FreeList_pad_size(size0), LAMBDA size :
    Bind(IF f.last_used # NULL
         THEN FreeList_allocate_hot(f, size)
         ELSE [f EXCEPT !.s.rbool = FALSE], LAMBDA h :
    IF h.s.rbool
    THEN h
    ELSE Bind(LinkedList_cursor_mut(f.s), LAMBDA c :
         FreeList_allocate_scan(c, f.last_used, size, 0, Fuel))))

\* offset >= r.offset + r.size: the freed region starts at or after r's end
Range_ends_before(r, offset) == offset >= r.offset + r.size

\* The loop of FreeList::free
RECURSIVE FreeList_free_loop(_, _, _, _, _)
FreeList_free_loop(c, lu, offset, size, fuel) ==
    Bind(CursorMut_value(c), LAMBDA v :
    Bind([offset |-> offset, size |-> size], LAMBDA new :
    IF fuel = 0 \/ v.fault
    THEN FL(Fault(c), lu, Faulted)
    ELSE IF v.rsome /\ offset < v.rval.offset
    THEN Bind(CursorMut_insert_before(c, new), LAMBDA i :
         FL(i, lu, FreeOk))
    ELSE IF v.rsome /\ Range_ends_before(v.rval, offset)
    THEN Bind(Common_next(c), LAMBDA x :
         IF x.fault
         THEN FL(x, lu, Faulted)
         ELSE IF ~x.rbool
         THEN \* Add new range to the end of the list
              Bind(CursorMut_insert_after(x, new), LAMBDA i :
              FL(i, lu, FreeOk))
         ELSE FreeList_free_loop(x, lu, offset, size, fuel - 1))
    ELSE IF ~v.rsome
    THEN \* No free regions, so add one
         Bind(CursorMut_insert_before(c, new), LAMBDA i :
         Bind(Common_reference(i), LAMBDA r :
         FL(r, SomeRef(r), FreeOk)))
    ELSE FL(c, lu, FreeErr)))

\* FreeList::free
FreeList_free(f, offset, size0) ==
    Bind(LinkedList_cursor_mut(f.s), LAMBDA c :
    FreeList_free_loop(c, f.last_used, offset, FreeList_pad_size(size0), Fuel))

\* The Ranges of the free list, in list order
FreeList_ranges(s) == LinkedList_iter_mut(s).seq

----------------------------------------------------------------------------
(* SpecFL: one FreeList driven by allocate and free.  A small page is      *)
(* explored with sizes around the word size, a 4096 byte page with the     *)
(* sizes and offsets of the documented scenarios.  A behaviour starts from *)
(* FreeList::new(capacity); it may begin with a script of six calls that   *)
(* hand out the whole page, take it back and hand it out again.            *)

\* Number of FreeList calls a behaviour of SpecFL performs after its start.
MaxFLOps == 5

Caps == {32, 4096}

\* The sizes allocate is called with
Sizes(capacity) == IF capacity = 32 THEN {1, 8, 17} ELSE {50, 100, 4000, 4088}

\* The (offset, size) pairs free is called with besides the live allocations
Regions(capacity) ==
    IF capacity = 32 THEN {0, 8} \X {1, 8} ELSE {1000, 1040} \X {50}

\* Two sizes that together take the whole page
Halves(capacity) == IF capacity = 32 THEN <<17, 1>> ELSE <<4000, 80>>

\* The list once a call's cursor is gone.
NoCursor(s) ==
    [s EXCEPT !.node = NULL, !.position = 0, !.rnode = NULL, !.rref = NULL,
              !.rbool = FALSE, !.rsome = FALSE, !.rval = NULL]

\* What last_used stands for when a call begins: unset, the Range its
\* cursor reads, or no Range at all.
HotOf(f) ==
    IF f.last_used = NULL
    THEN [kind |-> "unset"]
    ELSE Bind(CursorMut_value(Ref_cursor_mut(f.s, f.last_used)), LAMBDA v :
         IF v.fault \/ ~v.rsome
         THEN [kind |-> "invalid"]
         ELSE [kind |-> "range", range |-> v.rval])

\* A FreeList with its caller's books: [f, live, log]
Call(f, op, offset, size, res) ==
    [op |-> op, offset |-> offset, size |-> size,
     pre |-> FreeList_ranges(f.s), padded |-> FreeList_pad_size(size),
     last_used |-> f.last_used, hot |-> HotOf(f),
     res |-> res]

\* list.allocate(size); the caller keeps what it was given
DoAllocate(g, size) ==
    Bind(FreeList_allocate(g.f, size), LAMBDA f :
    [f |-> [f EXCEPT !.s = NoCursor(f.s)],
     live |-> IF f.res.kind = "Allocated"
              THEN Append(g.live, [offset |-> f.res.n, size |-> size])
              ELSE g.live,
     log |-> Append(g.log, Call(g.f, "allocate", 0, size, f.res))])

\* list.free(offset, size)
DoFree(g, offset, size) ==
    Bind(FreeList_free(g.f, offset, size), LAMBDA f :
    Bind({i \in 1..Len(g.live) : g.live[i] = [offset |-> offset, size |-> size]},
         LAMBDA own :
    [f |-> [f EXCEPT !.s = NoCursor(f.s)],
     live |-> IF f.res.kind = "Ok" /\ own # {}
              THEN RemoveAt(g.live, CHOOSE i \in own : TRUE)
              ELSE g.live,
     log |-> Append(g.log, Call(g.f, "free", offset, size, f.res))]))

\* FreeList::new(capacity) and nothing handed out
Fresh(capacity) ==
    Bind(FreeList_new(capacity), LAMBDA f :
    [f |-> [f EXCEPT !.s = NoCursor(f.s)], live |-> <<>>, log |-> <<>>])

\* The calls that hand out both halves, free both and hand out both again:
\* allocate(arg), or free of the arg-th live allocation of the books.
DrainScript(capacity) ==
    LET h == Halves(capacity)
    IN << [op |-> "allocate", arg |-> h[1]], [op |-> "allocate", arg |-> h[2]],
          [op |-> "free", arg |-> 1], [op |-> "free", arg |-> 1],
          [op |-> "allocate", arg |-> h[1]], [op |-> "allocate", arg |-> h[2]] >>

GCur ==
    [f |-> [s |-> Cur, last_used |-> last_used, res |-> NoResult],
     live |-> live, log |-> log]

GCommit(g) ==
    /\ Commit(g.f.s)
    /\ last_used' = g.f.last_used
    /\ live' = g.live
    /\ log' = g.log
    /\ UNCHANGED fl_cap
    /\ UNCHANGED ghostVars
    /\ UNCHANGED buildVars

InitFL ==
    /\ \E capacity \in Caps : \E g \in {Fresh(capacity)} :
             /\ Load(g.f.s)
             /\ last_used = g.f.last_used
             /\ live = g.live
             /\ log = g.log
             /\ fl_cap = capacity
             /\ script \in {<<>>, DrainScript(capacity)}
    /\ setup = 0
    /\ wellBehaved = TRUE
    /\ shadow = <<>>
    /\ spos = 0
    /\ refs = {}
    /\ nOps = 0
    /\ build = Placeholder

\* The next call of the script the behaviour starts with
Setup ==
    /\ ~fault
    /\ script # <<>>
    /\ LET c == Head(script)
       IN \E g \in {IF c.op = "allocate"
                     THEN DoAllocate(GCur, c.arg)
                     ELSE DoFree(GCur, live[c.arg].offset, live[c.arg].size)} :
             GCommit(g)
    /\ script' = Tail(script)
    /\ setup' = setup + 1
    /\ UNCHANGED wellBehaved

\* list.allocate(size)
Allocate ==
    /\ ~fault
    /\ script = <<>>
    /\ Len(log) - setup < MaxFLOps
    /\ \E size \in Sizes(fl_cap) : \E g \in {DoAllocate(GCur, size)} : GCommit(g)
    /\ UNCHANGED <<wellBehaved, script, setup>>

\* list.free(offset, size) of a live allocation, as it was allocated
FreeLive ==
    /\ ~fault
    /\ script = <<>>
    /\ Len(log) - setup < MaxFLOps
    /\ \E i \in 1..Len(live) :
          \E g \in {DoFree(GCur, live[i].offset, live[i].size)} : GCommit(g)
    /\ UNCHANGED <<wellBehaved, script, setup>>

\* list.free(offset, size) of a region that is not a live allocation
FreeAny ==
    /\ ~fault
    /\ script = <<>>
    /\ Len(log) - setup < MaxFLOps
    /\ \E region \in Regions(fl_cap) :
          /\ \A i \in 1..Len(live) :
                live[i] # [offset |-> region[1], size |-> region[2]]
          /\ \E g \in {DoFree(GCur, region[1], region[2])} : GCommit(g)
    /\ wellBehaved' = FALSE
    /\ UNCHANGED <<script, setup>>

NextFL ==
    \/ Setup
    \/ Allocate
    \/ FreeLive
    \/ FreeAny

SpecFL == InitFL /\ [][NextFL]_vars

----------------------------------------------------------------------------
(* SpecBuild: the two ways tests.rs fills a list, for every node capacity  *)
(* up to MaxCap.  A behaviour starts from the list LinkedList::new()       *)
(* creates, or from the list with a placeholder node, and either runs the  *)
(* loop of test_linear_inserts or collects one input with from_iter.       *)

\* Largest node capacity N that SpecBuild fills a list of.
MaxCap == 4

\* Longest input that SpecBuild feeds a list.
MaxLen == 5

\* The values fed.
BuildValues == {1, 2}

RECURSIVE SeqsUpTo(_)
SeqsUpTo(n) ==
    IF n = 0 THEN {<<>>}
    ELSE LET shorter == SeqsUpTo(n - 1)
         IN shorter \cup {Append(q, v) : q \in {x \in shorter : Len(x) = n - 1},
                                          v \in BuildValues}

\* The inputs collected by from_iter
BuildInputs == SeqsUpTo(MaxLen)

InitBuild ==
    /\ \E n \in 1..MaxCap :
          \/ Load(LinkedList_cursor_mut(LinkedList_new(n))) /\ build = AsWritten
          \/ Load(LinkedList_cursor_mut(LinkedList_empty(n))) /\ build = Placeholder
    /\ shadow = <<>>
    /\ spos = 0
    /\ refs = {}
    /\ nOps = 0
    /\ last_used = NULL
    /\ fl_cap = 0
    /\ live = <<>>
    /\ wellBehaved = TRUE
    /\ log = <<>>
    /\ setup = 0
    /\ script = <<>>

\* One round of the loop of test_linear_inserts: c.next(); c.insert_after(i)
LinearInsert ==
    /\ ~fault
    /\ build.by \in {"none", "linear_inserts"}
    /\ Len(shadow) < MaxLen
    /\ \E i \in BuildValues :
          /\ \E n \in {Common_next(Cur)} :
                \E r \in {IF n.fault THEN n ELSE CursorMut_insert_after(n, i)} :
                   Commit(r)
          /\ shadow' = Append(shadow, i)
    /\ build' = [build EXCEPT !.by = "linear_inserts"]
    /\ UNCHANGED <<spos, refs, nOps, flVars>>

\* let ll: LinkedList<T, N> = iter.collect()
Collect ==
    /\ ~fault
    /\ build.by = "none"
    /\ \E iter \in BuildInputs :
          /\ \E r \in {LinkedList_from_iter(Cur, iter)} : Commit(r)
          /\ shadow' = iter
    /\ build' = [build EXCEPT !.by = "from_iter"]
    /\ UNCHANGED <<spos, refs, nOps, flVars>>

NextBuild ==
    \/ LinearInsert
    \/ Collect

SpecBuild == InitBuild /\ [][NextBuild]_vars

----------------------------------------------------------------------------
\* C1: forward traversal from the head yields the reference sequence.
C1_ForwardMatchesReference ==
    ~fault =>
        LET it == LinkedList_iter_mut(Cur)
        IN it.ok /\ it.seq = shadow

\* C2: reverse iteration yields the reverse of forward iteration.
C2_ReverseIsReverseOfForward ==
    ~fault =>
        LET f == LinkedList_iter_mut(Cur)
            b == LinkedList_iter_mut_reverse(Cur)
        IN f.ok /\ b.ok /\ b.seq = Reverse(f.seq)

\* C3: len() equals the number of values a forward traversal visits.
C3_LenIsTraversalCount ==
    ~fault => Validate_iterations(Cur) = LinkedList_len(Cur)

\* C4: a Ref of a value still in the list resolves to that value.
C4_RefResolvesToValue ==
    ~fault =>
        \A p \in refs :
            p.val \in Elems(shadow) =>
                LET c == CursorMut_value(Ref_cursor_mut(Cur, p.ref))
                IN ~c.fault /\ c.rsome /\ c.rval = p.val

----------------------------------------------------------------------------
Overlap(a, b) == a.offset < b.offset + b.size /\ b.offset < a.offset + a.size

Intersects(r, offset, size) == offset < r.offset + r.size /\ r.offset < offset + size

RECURSIVE MaxSize(_)
MaxSize(ranges) ==
    IF ranges = <<>> THEN 0
    ELSE LET m == MaxSize(Tail(ranges))
         IN IF Head(ranges).size > m THEN Head(ranges).size ELSE m

\* The least multiple of WORD that is not smaller than size
RoundUp(size) == CHOOSE m \in size..(size + WORD) :
                    m % WORD = 0 /\ \A k \in size..(m - 1) : k % WORD # 0

IsCall(c, op, offset, size) == c.op = op /\ c.offset = offset /\ c.size = size

\* C5: while every free frees a live allocation with the offset and size it
\* was allocated with, no two live allocations overlap.
C5_LiveAllocationsDisjoint ==
    wellBehaved =>
        \A i, j \in 1..Len(live) : i < j => ~Overlap(live[i], live[j])

\* The calls of Scenario A on FreeList::new(4096)
ScenarioA(k) ==
    /\ fl_cap = 4096
    /\ setup = 0
    /\ Len(log) >= k
    /\ k >= 1 => IsCall(log[1], "allocate", 0, 100)
    /\ k >= 2 => IsCall(log[2], "allocate", 0, 4000)
    /\ k >= 3 => IsCall(log[3], "free", 0, 100)
    /\ k >= 4 => IsCall(log[4], "allocate", 0, 4000)

\* C6 (as amended): Scenario A returns Allocated(0), NotFound(3992), Ok and
\* NotFound(3992).
C6_ScenarioA ==
    /\ ScenarioA(1) => log[1].res = Allocated(0)
    /\ ScenarioA(2) => log[2].res = NotFound(3992)
    /\ ScenarioA(3) => log[3].res = FreeOk
    /\ ScenarioA(4) => log[4].res = NotFound(3992)

\* C6 witness: the four calls of Scenario A have been made.
C6_ScenarioA_Run == ScenarioA(4)

\* C6 as stated: Scenario A returns Allocated(0), NotFound(3996), Ok and
\* Allocated(0).
C6_ScenarioA_AsStated ==
    /\ ScenarioA(1) => log[1].res = Allocated(0)
    /\ ScenarioA(2) => log[2].res = NotFound(3996)
    /\ ScenarioA(3) => log[3].res = FreeOk
    /\ ScenarioA(4) => log[4].res = Allocated(0)

\* free(1000, 50) made as call k on a free list with no Ranges
ScenarioB_first(k) ==
    /\ k \in 1..Len(log)
    /\ IsCall(log[k], "free", 1000, 50)
    /\ log[k].pre = <<>>

\* free(1040, 50) made right after it
ScenarioB_second(k) ==
    /\ ScenarioB_first(k)
    /\ k + 1 <= Len(log)
    /\ IsCall(log[k + 1], "free", 1040, 50)

\* C7: on a free list with no Ranges free(1000, 50) succeeds, and a
\* free(1040, 50) that follows it returns the overlap error.
C7_ScenarioB ==
    \A k \in 1..Len(log) :
        /\ ScenarioB_first(k) => log[k].res = FreeOk
        /\ ScenarioB_second(k) => log[k + 1].res = FreeErr

\* C7 witness: both calls of Scenario B have been made.
C7_ScenarioB_Run == \E k \in 1..Len(log) : ScenarioB_second(k)

\* C8: free returns the overlap error whenever the freed region intersects
\* a Range of the free list.
C8_FreeRejectsOverlap ==
    \A k \in 1..Len(log) :
        (/\ log[k].op = "free"
         /\ \E i \in 1..Len(log[k].pre) :
               Intersects(log[k].pre[i], log[k].offset, log[k].padded))
        => log[k].res = FreeErr

\* C9: allocate returns NotFound(m) exactly when no Range is as large as
\* the padded request, m being the largest Range size (0 for an empty
\* list), and Allocated in every other case.
C9_NotFoundIffNoFit ==
    \A k \in 1..Len(log) :
        log[k].op = "allocate" =>
            IF \E i \in 1..Len(log[k].pre) : log[k].pre[i].size >= log[k].padded
            THEN log[k].res.kind = "Allocated"
            ELSE log[k].res = NotFound(MaxSize(log[k].pre))

\* C10: the size a call works on is the least multiple of the word size
\* that is not smaller than the size asked for.
C10_PaddedIsRoundedUp ==
    \A k \in 1..Len(log) : log[k].padded = RoundUp(log[k].size)

\* C11: while every free frees a live allocation with the offset and size it
\* was allocated with, the Ranges of the free list are in strictly ascending
\* offset order and each Range ends at or before the offset of the next.
C11_RangesSortedDisjoint ==
    (wellBehaved /\ ~fault) =>
        LET it == LinkedList_iter_mut(Cur)
        IN /\ it.ok
           /\ \A i \in 1..(Len(it.seq) - 1) :
                 /\ it.seq[i].offset < it.seq[i + 1].offset
                 /\ it.seq[i].offset + it.seq[i].size <= it.seq[i + 1].offset

\* C12: after every round of test_linear_inserts, forward iteration yields
\* the values in insertion order and reverse iteration yields its reverse.
C12_LinearInserts ==
    build.by = "linear_inserts" =>
        /\ ~fault
        /\ LET f == LinkedList_iter_mut(Cur)
               b == LinkedList_iter_mut_reverse(Cur)
           IN /\ f.ok /\ f.seq = shadow
              /\ b.ok /\ b.seq = Reverse(shadow)

\* C13: a list built by from_iter has the length of its input and yields
\* the input, in order, when iterated forward.
C13_FromIterRoundTrip ==
    build.by = "from_iter" =>
        /\ ~fault
        /\ LinkedList_len(Cur) = Len(shadow)
        /\ LET f == LinkedList_iter_mut(Cur)
           IN f.ok /\ f.seq = shadow

\* C14: the walk from the head by next pointers finds the first node
\* without a previous node and every later node's previous pointer equal to
\* the node it was reached from.
C14_DoublyLinked == ~fault => Validate_nodes(Cur).linked

\* C15: the lengths of the nodes reached from the head by next pointers add
\* up to len().
C15_NodeLengthsSumToLen ==
    ~fault =>
        LET w == Validate_nodes(Cur)
        IN w.ended /\ w.node_length = LinkedList_len(Cur)

\* C16: in a list that a value has been inserted into (every insert leaves a
\* Location behind), head and tail are both null exactly when len() is 0.
C16_NullIffEmpty ==
    (~fault /\ locs # <<>>) =>
        ((head = NULL /\ tail = NULL) <=> LinkedList_len(Cur) = 0)

----------------------------------------------------------------------------
\* The cursor is on the last element: the reference sequence and the list
\* agree that nothing follows the slot it is on.
OnLastElement ==
    /\ ~fault
    /\ shadow # <<>> /\ spos = Len(shadow)
    /\ LinkedList_len(Cur) = Len(shadow)
    /\ node = tail /\ position = Node_len(Cur, node) - 1

\* The cursor is on the first element.
OnFirstElement ==
    /\ ~fault
    /\ shadow # <<>> /\ spos = 1
    /\ LinkedList_len(Cur) = Len(shadow)
    /\ node = head /\ position = 0

\* The list is empty.
OnEmptyList ==
    /\ ~fault
    /\ shadow = <<>>
    /\ LinkedList_len(Cur) = 0

\* What the call returns is false, and the cursor is where it was.
StaysPut(r) == ~r.fault /\ ~r.rbool /\ r.node = node /\ r.position = position

\* C17: next() on the last element and previous() on the first element
\* return false and leave the cursor where it is; on an empty list both
\* return false.
C17_NoMoveAtEnds ==
    /\ OnLastElement => StaysPut(Common_next(Cur))
    /\ OnFirstElement => StaysPut(Common_previous(Cur))
    /\ OnEmptyList => LET n == Common_next(Cur)
                          p == Common_previous(Cur)
                      IN ~n.fault /\ ~n.rbool /\ ~p.fault /\ ~p.rbool

----------------------------------------------------------------------------
\* The slots of the list in forward order: the occupied positions of every
\* node, the nodes taken from n by next pointers.
RECURSIVE ForwardSlots(_, _, _)
ForwardSlots(s, n, fuel) ==
    IF n = NULL \/ fuel = 0 \/ Node_len(s, n) < 0
    THEN <<>>
    ELSE [p \in 1..Node_len(s, n) |-> [node |-> n, position |-> p - 1]]
         \o ForwardSlots(s, s.nodes[n].next, fuel - 1)

\* The slot a cursor is on
SlotOf(s) == [node |-> s.node, position |-> s.position]

\* C18: from a slot that is not the last in forward order next() returns
\* true and puts the cursor on the slot that follows it, and previous() then
\* returns to the slot it came from; from a slot that is not the first
\* previous() returns true and puts the cursor on the slot before it.
C18_StepsToNeighbour ==
    ~fault =>
        LET order == ForwardSlots(Cur, head, Fuel)
        IN \A k \in 1..Len(order) :
              order[k] = SlotOf(Cur) =>
                 /\ k < Len(order) =>
                       LET n == Common_next(Cur)
                           b == Common_previous(n)
                       IN /\ ~n.fault /\ n.rbool /\ SlotOf(n) = order[k + 1]
                          /\ ~b.fault /\ b.rbool /\ SlotOf(b) = SlotOf(Cur)
                 /\ k > 1 =>
                       LET p == Common_previous(Cur)
                       IN ~p.fault /\ p.rbool /\ SlotOf(p) = order[k - 1]

----------------------------------------------------------------------------
\* The value in a slot
SlotValue(s, slot) == Node_value_mut(s, slot.node, slot.position).rval

\* C19: remove() on a list of two or more elements leaves the cursor on the
\* element that was just before the removed one, or, when the first element
\* was removed, on the one that was just after it.
C19_CursorAfterRemove ==
    ~fault =>
        LET order == ForwardSlots(Cur, head, Fuel)
        IN \A k \in 1..Len(order) :
              (/\ order[k] = SlotOf(Cur)
               /\ Len(order) >= 2
               /\ Len(order) = LinkedList_len(Cur))
              => LET r == CursorMut_remove(Cur)
                     v == CursorMut_value(r)
                     neighbour == IF k > 1 THEN order[k - 1] ELSE order[2]
                 IN /\ ~r.fault /\ r.rsome
                    /\ ~v.fault /\ v.rsome
                    /\ v.rval = SlotValue(Cur, neighbour)

\* C20: remove() returns None exactly on the empty list, which it leaves as
\* it is; on any other list it returns the value the cursor is on, and the
\* list then yields the values it yielded before without that one.
C20_RemoveReturnsCurrent ==
    ~fault =>
        LET r == CursorMut_remove(Cur)
            order == ForwardSlots(Cur, head, Fuel)
            before == LinkedList_iter_mut(Cur)
            after == LinkedList_iter_mut(r)
        IN /\ LinkedList_len(Cur) = 0 =>
                 /\ ~r.fault /\ ~r.rsome
                 /\ r.length = length /\ r.head = head /\ r.tail = tail
                 /\ r.nodes = nodes
           /\ LinkedList_len(Cur) # 0 =>
                 /\ r.fault \/ r.rsome
                 /\ \A k \in 1..Len(order) :
                       (/\ order[k] = SlotOf(Cur)
                        /\ before.ok /\ Len(before.seq) = Len(order)
                        /\ Len(order) = LinkedList_len(Cur))
                       => /\ ~r.fault
                          /\ r.rval = before.seq[k]
                          /\ after.ok
                          /\ after.seq = RemoveAt(before.seq, k)

----------------------------------------------------------------------------
\* The cursor is on the k-th slot of the list in forward order, and the list
\* yields as many values as len() says.
OnSlot(k) ==
    LET order == ForwardSlots(Cur, head, Fuel)
        it == LinkedList_iter_mut(Cur)
    IN /\ ~fault
       /\ k \in 1..Len(order)
       /\ order[k] = SlotOf(Cur)
       /\ it.ok /\ Len(it.seq) = Len(order)
       /\ Len(order) = LinkedList_len(Cur)

\* A value that is not in the list
FreshValue == nOps + 1

\* C21: insert_before(v) on a non-empty list leaves the cursor on the element
\* it was on, and v is then the element just before it.
C21_InsertBeforeKeepsElement ==
    \A k \in 1..LinkedList_len(Cur) :
        OnSlot(k) =>
            LET before == LinkedList_iter_mut(Cur).seq
                r == CursorMut_insert_before(Cur, FreshValue)
                v == CursorMut_value(r)
                after == LinkedList_iter_mut(r)
            IN /\ ~r.fault
               /\ ~v.fault /\ v.rsome /\ v.rval = before[k]
               /\ after.ok /\ after.seq = InsertAt(before, k, FreshValue)

\* C22: seek_to_start() on a non-empty list, from whichever slot the cursor
\* is on, leaves the cursor on the first element.
C22_SeekToStartOnFirst ==
    \A k \in 1..LinkedList_len(Cur) :
        OnSlot(k) =>
            LET before == LinkedList_iter_mut(Cur).seq
                v == CursorMut_value(Common_seek_to_start(Cur))
            IN ~v.fault /\ v.rsome /\ v.rval = before[1]

\* C23: seek_to_end() on a non-empty list leaves the cursor on the last
\* element of the forward order, where next() returns false.
C23_SeekToEndOnLast ==
    (~fault /\ LinkedList_len(Cur) > 0) =>
        LET before == LinkedList_iter_mut(Cur)
            e == Common_seek_to_end(Cur)
            v == CursorMut_value(e)
            n == Common_next(e)
        IN /\ ~e.fault
           /\ ~v.fault /\ v.rsome
           /\ before.ok /\ before.seq # <<>> /\ v.rval = before.seq[Len(before.seq)]
           /\ ~n.fault /\ ~n.rbool

\* C24: whenever len() > 0 the cursor is on an occupied slot of a node of
\* the list, and value() returns the value in it; value() returns None only
\* when the list is empty.
C24_ValueOnlyNoneWhenEmpty ==
    (~fault /\ LinkedList_len(Cur) > 0) =>
        LET order == ForwardSlots(Cur, head, Fuel)
            v == CursorMut_value(Cur)
        IN /\ \E k \in 1..Len(order) : order[k] = SlotOf(Cur)
           /\ ~nodes[node].dropped
           /\ ~v.fault /\ v.rsome

----------------------------------------------------------------------------
\* The Ref that reference() returns for a slot
SlotRef(s, slot) == Node_reference(s, slot.node, slot.position).rref

\* C25: the Refs of two different slots of the list are never equal, and a
\* Ref handed out for a value still in the list equals the Ref that
\* reference() returns on the slot that holds the value.
C25_OneLocationPerSlot ==
    ~fault =>
        LET order == ForwardSlots(Cur, head, Fuel)
        IN /\ \A i, j \in 1..Len(order) :
                 i < j => ~Ref_eq(SlotRef(Cur, order[i]), SlotRef(Cur, order[j]))
           /\ \A p \in refs :
                 p.val \in Elems(shadow) =>
                     \E i \in 1..Len(order) :
                        /\ SlotValue(Cur, order[i]) = p.val
                        /\ Ref_eq(p.ref, SlotRef(Cur, order[i]))


\* C26: the NullRef that remove() returns equals every Ref obtained for the
\* removed value, and differs from the Ref of every value that is still in
\* the list once the removal is done.
C26_NullRefMatchesRemoved ==
    ~fault =>
        LET r == CursorMut_remove(Cur)
            rest == ForwardSlots(r, r.head, Fuel)
        IN (~r.fault /\ r.rsome) =>
              /\ \A p \in refs :
                    p.val = r.rval => NullRef_eq(r.rref, p.ref)
              /\ \A i \in 1..Len(rest) :
                    ~NullRef_eq(r.rref, SlotRef(r, rest[i]))


\* The cursor is on the sole value of a node that has a sibling, in a
\* well-linked list.
OnSoleValueWithSibling ==
    /\ ~fault
    /\ length > 0
    /\ Validate_nodes(Cur).linked
    /\ ~nodes[node].dropped
    /\ Node_len(Cur, node) = 1
    /\ position = 0
    /\ (nodes[node].previous # NULL \/ nodes[node].next # NULL)

\* C27: removing the sole value of a node that has a sibling unlinks the
\* node: its former previous node gets its former next node as next, its
\* former next node gets its former previous node as previous, and no
\* remaining node, nor head or tail, points at the removed node.
C27_RemoveUnlinksNode ==
    OnSoleValueWithSibling =>
        LET n == node
            prev == nodes[n].previous
            nxt == nodes[n].next
            r == CursorMut_remove(Cur)
        IN /\ ~r.fault
           /\ r.nodes[n].dropped
           /\ prev # NULL => r.nodes[prev].next = nxt
           /\ nxt # NULL => r.nodes[nxt].previous = prev
           /\ r.head # n /\ r.tail # n
           /\ \A m \in 1..Len(r.nodes) :
                 ~r.nodes[m].dropped =>
                     r.nodes[m].previous # n /\ r.nodes[m].next # n


\* The values node n holds, in slot order.
NodeValues(s, n) ==
    [k \in 1..Node_len(s, n) |-> Node_value_mut(s, n, k - 1).rval]

\* Node n is in use and holds N values.
FullNode(n) == ~nodes[n].dropped /\ Node_len(Cur, n) = cap

\* C28: Node::insert at position i of a full node splits it: the values at
\* positions i..N-1 move in order into a new node, which becomes the next of
\* the original node and takes the old next as its own next; the inserted
\* value is the last value of the original node; the two nodes hold N+1
\* values together and neither is empty.
C28_InsertSplitsFullNode ==
    ~fault =>
        \A n \in 1..Len(nodes) : \A i \in 0..(cap - 1) :
            FullNode(n) =>
                LET old == NodeValues(Cur, n)
                    old_next == nodes[n].next
                    r == Node_insert(Cur, n, i, FreshValue)
                    new_node == r.rnode
                IN /\ ~r.fault
                   /\ new_node = Len(nodes) + 1
                   /\ NodeValues(r, new_node) = SubSeq(old, i + 1, cap)
                   /\ NodeValues(r, n) = Append(SubSeq(old, 1, i), FreshValue)
                   /\ r.nodes[n].next = new_node
                   /\ r.nodes[new_node].previous = n
                   /\ r.nodes[new_node].next = old_next
                   /\ old_next # NULL => r.nodes[old_next].previous = new_node
                   /\ Node_len(r, n) + Node_len(r, new_node) = cap + 1
                   /\ Node_len(r, n) > 0 /\ Node_len(r, new_node) > 0

\* C28 witness: an insert has just split a full node that had a next node:
\* the newest node follows the cursor's node and precedes its old next, the
\* value inserted last is the last value of the cursor's node, and the two
\* hold N+1 values.
C28_SplitHappened ==
    /\ ~fault
    /\ nOps > 0
    /\ ret.rnode = Len(nodes)
    /\ Len(nodes) > 2
    /\ ~nodes[node].dropped
    /\ nodes[node].next = ret.rnode
    /\ nodes[ret.rnode].previous = node
    /\ nodes[ret.rnode].next # NULL
    /\ nodes[nodes[ret.rnode].next].previous = ret.rnode
    /\ Node_len(Cur, node) + Node_len(Cur, ret.rnode) = cap + 1
    /\ NodeValues(Cur, node)[Node_len(Cur, node)] = nOps
    /\ Node_len(Cur, ret.rnode) > 0

\* Node n has a previous or a next node, or is the previous or next of a node
\* in use.
HasSibling(n) ==
    \/ nodes[n].previous # NULL
    \/ nodes[n].next # NULL
    \/ \E m \in 1..Len(nodes) :
          ~nodes[m].dropped /\ (nodes[m].previous = n \/ nodes[m].next = n)

\* C29: a node that has a previous or a next node holds at least one value;
\* only the lone node of an empty list has length 0.
C29_OnlyLoneNodeEmpty ==
    ~fault =>
        \A n \in 1..Len(nodes) :
            (~nodes[n].dropped /\ HasSibling(n)) => Node_len(Cur, n) >= 1

\* C29 witness: remove() has just returned the sole value of a node that had
\* a sibling; the node is released rather than left empty, and the list
\* still has more than one node.
C29_NodeReleased ==
    /\ ~fault
    /\ ret.rsome /\ ret.rval \notin Elems(shadow)
    /\ \E d, n, m \in 1..Len(nodes) :
          /\ nodes[d].dropped
          /\ NodeValues(Cur, d) = <<ret.rval>>
          /\ nodes[d].next = n
          /\ n # m
          /\ ~nodes[n].dropped /\ ~nodes[m].dropped
          /\ nodes[n].next = m /\ nodes[m].previous = n
          /\ head = n


\* Every node in use of state s holds between 0 and N values, in the slots
\* 0..length-1.
NodesPacked(s) ==
    \A n \in 1..Len(s.nodes) :
        ~s.nodes[n].dropped =>
            /\ s.nodes[n].start = 0
            /\ Node_len(s, n) >= 0
            /\ Node_len(s, n) <= s.cap

\* C30: every node holds at most N values, in the contiguous slots
\* 0..length-1, and neither insert_before nor insert_after writes past the
\* capacity of a node: each returns and leaves every node so.
C30_NodesWithinCapacity ==
    ~fault =>
        /\ NodesPacked(Cur)
        /\ LET b == CursorMut_insert_before(Cur, FreshValue)
               a == CursorMut_insert_after(Cur, FreshValue)
           IN /\ ~b.fault /\ NodesPacked(b)
              /\ ~a.fault /\ NodesPacked(a)


\* Following next pointers from node n arrives at node target.
RECURSIVE ReachesByNext(_, _, _, _)
ReachesByNext(s, n, target, fuel) ==
    IF n = target THEN TRUE
    ELSE IF n = NULL \/ fuel = 0 THEN FALSE
    ELSE ReachesByNext(s, s.nodes[n].next, target, fuel - 1)

\* head of s has no previous node, tail has no next node, and tail is
\* reached from head.
EndsInPlace(s) ==
    /\ s.head # NULL /\ s.tail # NULL
    /\ ~s.nodes[s.head].dropped /\ ~s.nodes[s.tail].dropped
    /\ s.nodes[s.head].previous = NULL
    /\ s.nodes[s.tail].next = NULL
    /\ ReachesByNext(s, s.head, s.tail, Fuel)

\* C31: in every state of a non-empty list head is the node with no previous
\* node, tail is the node with no next node, and tail is reached from head
\* by following next pointers.
C31_HeadTailAreEnds == (~fault /\ length > 0) => EndsInPlace(Cur)


\* The Ranges held by the slots of list s, in forward order, and the
\* Location of each of these slots.
RangesOf(s) ==
    LET order == ForwardSlots(s, s.head, Fuel)
    IN [k \in 1..Len(order) |-> SlotValue(s, order[k])]

RefsOf(s) ==
    LET order == ForwardSlots(s, s.head, Fuel)
    IN [k \in 1..Len(order) |-> s.nodes[order[k].node].slots[
            s.nodes[order[k].node].start + order[k].position + 1].loc]

\* The FreeList of the current state
ThisFreeList == [s |-> Cur, last_used |-> last_used, res |-> NoResult]

HotRange == CursorMut_value(Ref_cursor_mut(Cur, last_used))

\* The fast path of allocate does not serve a request of this padded size.
NoFastPath(padded) ==
    \/ last_used = NULL
    \/ /\ last_used # NULL
       /\ ~HotRange.fault /\ HotRange.rsome
       /\ HotRange.rval.size < padded

\* The indexes of the Ranges that are large enough, and the one of them
\* with the lowest offset.
Fitting(ranges, padded) == {k \in 1..Len(ranges) : ranges[k].size >= padded}

LowestFit(ranges, padded) ==
    CHOOSE k \in Fitting(ranges, padded) :
        \A j \in Fitting(ranges, padded) :
            \/ ranges[k].offset < ranges[j].offset
            \/ ranges[k].offset = ranges[j].offset /\ k <= j

\* C33: when the fast path does not apply and some Range fits, allocate
\* returns the offset of the lowest-offset Range that is large enough, and
\* a Range strictly larger than the request becomes last_used.
C33_FirstFit ==
    ~fault =>
        \A size \in Sizes(fl_cap) :
            LET ranges == RangesOf(Cur)
                padded == FreeList_pad_size(size)
                f == FreeList_allocate(ThisFreeList, size)
            IN (NoFastPath(padded) /\ Fitting(ranges, padded) # {}) =>
                  LET k == LowestFit(ranges, padded)
                  IN /\ f.res = Allocated(ranges[k].offset)
                     /\ ranges[k].size > padded =>
                           /\ f.last_used # NULL
                           /\ Len(RangesOf(f.s)) = Len(ranges)
                           /\ RefsOf(f.s)[k] = f.last_used
                           /\ RangesOf(f.s)[k] =
                                 [offset |-> ranges[k].offset + padded,
                                  size |-> ranges[k].size - padded]


\* The call made last
LastCall == log[Len(log)]

\* C33 witness: the last call was an allocate that found the Range of
\* last_used too small, passed over the first Range of the list and carved
\* its allocation from a later, larger Range, which last_used now refers to.
C33_ScanServed ==
    /\ ~fault
    /\ Len(log) > 0
    /\ LastCall.op = "allocate"
    /\ LastCall.hot.kind = "range"
    /\ LastCall.hot.range.size < LastCall.padded
    /\ Fitting(LastCall.pre, LastCall.padded) # {}
    /\ LET k == LowestFit(LastCall.pre, LastCall.padded)
       IN /\ k > 1
          /\ LastCall.pre[k].size > LastCall.padded
          /\ LastCall.res = Allocated(LastCall.pre[k].offset)
          /\ last_used # NULL
          /\ last_used # LastCall.last_used
          /\ k <= Len(RangesOf(Cur))
          /\ RefsOf(Cur)[k] = last_used


\* The hot path of allocate finds the Range of last_used exactly as large
\* as the padded request.
HotExact(padded) ==
    /\ last_used # NULL
    /\ ~HotRange.fault /\ HotRange.rsome
    /\ HotRange.rval.size = padded

\* The first-fit scan is reached and the Range it chooses is exactly as
\* large as the padded request.
ScanExact(ranges, padded) ==
    /\ NoFastPath(padded)
    /\ Fitting(ranges, padded) # {}
    /\ ranges[LowestFit(ranges, padded)].size = padded

\* allocate(size) on the current state removes the Range it chooses, which
\* is exactly as large as the padded request, and returns its offset; lu(k)
\* is what last_used has to be after the scan has removed Range k.
ExactFitRemoves(size, lu(_)) ==
    LET ranges == RangesOf(Cur)
        padded == FreeList_pad_size(size)
        f == FreeList_allocate(ThisFreeList, size)
    IN /\ HotExact(padded) =>
             /\ f.res = Allocated(HotRange.rval.offset)
             /\ f.last_used = NULL
             /\ \E k \in 1..Len(ranges) :
                   /\ ranges[k] = HotRange.rval
                   /\ RangesOf(f.s) = RemoveAt(ranges, k)
       /\ ScanExact(ranges, padded) =>
             LET k == LowestFit(ranges, padded)
             IN /\ f.res = Allocated(ranges[k].offset)
                /\ RangesOf(f.s) = RemoveAt(ranges, k)
                /\ f.last_used = lu(k)

Cleared(k) == NULL

ClearedIfOnRange(k) == IF RefsOf(Cur)[k] = last_used THEN NULL ELSE last_used

\* C34 as stated: when the Range allocate chooses, on the fast path or by
\* the scan, is exactly as large as the padded request, allocate returns
\* its offset, the Range is removed and last_used is cleared.
C34_ExactFit_AsStated ==
    ~fault => \A size \in Sizes(fl_cap) : ExactFitRemoves(size, Cleared)

\* C34 (as amended): ... and last_used is cleared when it referred to the
\* removed Range; after a scan that removed another Range it is kept.
C34_ExactFit ==
    ~fault => \A size \in Sizes(fl_cap) : ExactFitRemoves(size, ClearedIfOnRange)


\* C34 witness: the last call was an allocate whose scan removed a Range
\* exactly as large as the padded request while last_used was on another,
\* smaller Range, where it still is.
C34_ScanRemovedExact ==
    /\ ~fault
    /\ Len(log) > 0
    /\ LastCall.op = "allocate"
    /\ LastCall.hot.kind = "range"
    /\ LastCall.hot.range.size < LastCall.padded
    /\ Fitting(LastCall.pre, LastCall.padded) # {}
    /\ LET k == LowestFit(LastCall.pre, LastCall.padded)
       IN /\ LastCall.pre[k].size = LastCall.padded
          /\ LastCall.res = Allocated(LastCall.pre[k].offset)
          /\ RangesOf(Cur) = RemoveAt(LastCall.pre, k)
    /\ last_used # NULL
    /\ last_used = LastCall.last_used
    /\ HotRange.rsome /\ HotRange.rval = LastCall.hot.range


\* The (offset, size) pairs free is called with in the current state
FreeArgs ==
    {<<live[i].offset, live[i].size>> : i \in 1..Len(live)} \cup Regions(fl_cap)

\* C35: a successful free(offset, size) adds the one Range {offset, padded
\* size} to the free list, after every Range with a lower offset and before
\* every Range with a higher one, and leaves every other Range as it was.
C35_FreeAddsOneRange ==
    ~fault =>
        \A a \in FreeArgs :
            LET ranges == RangesOf(Cur)
                new == [offset |-> a[1], size |-> FreeList_pad_size(a[2])]
                f == FreeList_free(ThisFreeList, a[1], a[2])
            IN f.res = FreeOk =>
                  \E k \in 1..(Len(ranges) + 1) :
                     /\ RangesOf(f.s) = InsertAt(ranges, k, new)
                     /\ \A j \in 1..Len(ranges) :
                           IF j < k THEN ranges[j].offset <= new.offset
                                    ELSE ranges[j].offset > new.offset


\* The sizes of the Ranges of a sequence, added up
RECURSIVE SumSizes(_)
SumSizes(ranges) ==
    IF ranges = <<>> THEN 0 ELSE Head(ranges).size + SumSizes(Tail(ranges))

\* The padded sizes of the allocations of a sequence, added up
RECURSIVE SumPadded(_)
SumPadded(allocs) ==
    IF allocs = <<>> THEN 0
    ELSE FreeList_pad_size(Head(allocs).size) + SumPadded(Tail(allocs))

\* C36: while every free frees a live allocation with the offset and size it
\* was allocated with, the sizes of the Ranges and the padded sizes of the
\* live allocations add up to the capacity, and every live allocation lies
\* inside the buffer.
C36_BytesConserved ==
    (wellBehaved /\ ~fault) =>
        /\ SumSizes(RangesOf(Cur)) + SumPadded(live) = fl_cap
        /\ \A i \in 1..Len(live) :
              live[i].offset >= 0 /\ live[i].offset + live[i].size <= fl_cap


\* Every free so far was called with an offset that an earlier allocate had
\* returned.
FreesOnReturned ==
    \A k \in 1..Len(log) :
        log[k].op = "free" =>
            \E j \in 1..(k - 1) :
                log[j].op = "allocate" /\ log[j].res = Allocated(log[k].offset)

Aligned(n) == n % WORD = 0

\* C37: on a buffer whose capacity is a multiple of the word size, while
\* free is only called with offsets that allocate returned, the offset and
\* the size of every Range and every offset that allocate returned are
\* multiples of the word size.
C37_WordAligned ==
    (Aligned(fl_cap) /\ FreesOnReturned) =>
        /\ \A k \in 1..Len(log) :
              log[k].res.kind = "Allocated" => Aligned(log[k].res.n)
        /\ ~fault =>
              \A k \in 1..Len(RangesOf(Cur)) :
                  Aligned(RangesOf(Cur)[k].offset) /\ Aligned(RangesOf(Cur)[k].size)

\* C37 witness: allocations of sizes that are no multiples of the word size
\* have been made, one of them has been freed and another allocation has
\* followed, and the list holds two Ranges or more.
C37_UnalignedSizesServed ==
    /\ ~fault
    /\ Aligned(fl_cap) /\ FreesOnReturned
    /\ Len(log) >= 3
    /\ LastCall.op = "allocate" /\ LastCall.res.kind = "Allocated"
    /\ ~Aligned(LastCall.size)
    /\ \E k \in 1..Len(log) :
          log[k].op = "free" /\ log[k].res = FreeOk /\ ~Aligned(log[k].size)
    /\ Len(RangesOf(Cur)) >= 2


\* Ref r is the Location of a slot of the list, and a cursor built from it
\* is on that slot.
RefersToListRange(s, r) ==
    LET order == ForwardSlots(s, s.head, Fuel)
    IN \E k \in 1..Len(order) :
          /\ RefsOf(s)[k] = r
          /\ SlotOf(Ref_cursor_mut(s, r)) = order[k]

\* C38: last_used is unset or refers to a Range that is in the free list,
\* and after a free on a list with no Ranges it refers to the Range that the
\* free inserted.
C38_LastUsedValid ==
    ~fault =>
        /\ last_used # NULL => RefersToListRange(Cur, last_used)
        /\ (Len(log) > 0 /\ LastCall.op = "free" /\ LastCall.pre = <<>>
                /\ LastCall.res = FreeOk) =>
              /\ last_used # NULL
              /\ HotRange.rsome
              /\ HotRange.rval = [offset |-> LastCall.offset, size |-> LastCall.padded]


\* The last call of the log failed: an allocate that returned NotFound or a
\* free that returned the overlap error.
LastCallFailed ==
    /\ Len(log) > 0
    /\ \/ LastCall.op = "allocate" /\ LastCall.res.kind = "NotFound"
       \/ LastCall.op = "free" /\ LastCall.res = FreeErr

\* C39: a failing call changes nothing: after an allocate that returned
\* NotFound or a free that returned the overlap error, the sequence of
\* Ranges, last_used and the Range last_used reads are what they were
\* before the call.
C39_FailureChangesNothing ==
    (~fault /\ LastCallFailed) =>
        /\ FreeList_ranges(Cur) = LastCall.pre
        /\ RangesOf(Cur) = LastCall.pre
        /\ last_used = LastCall.last_used
        /\ HotOf(ThisFreeList) = LastCall.hot

\* C39 witness: the last call was an allocate that found two Ranges, the
\* one of last_used and another, both too small, and returned NotFound.
C39_ScanFoundNothing ==
    /\ ~fault
    /\ Len(log) > 0
    /\ LastCall.op = "allocate" /\ LastCall.res.kind = "NotFound"
    /\ LastCall.res.n > 0
    /\ Len(LastCall.pre) >= 2
    /\ LastCall.hot.kind = "range"
    /\ LastCall.hot.range # LastCall.pre[Len(LastCall.pre)]


\* The Ranges a call may visit when it visits each Range at most once; a
\* call on a list with no Ranges looks once at the missing value.
VisitBound(s) == IF Len(RangesOf(s)) = 0 THEN 1 ELSE Len(RangesOf(s))

\* allocate(size) on f returns within VisitBound rounds of its loop.
AllocateEnds(f, size) ==
    LET h == IF f.last_used # NULL
             THEN FreeList_allocate_hot(f, FreeList_pad_size(size))
             ELSE [f EXCEPT !.s.rbool = FALSE]
    IN IF h.s.rbool
       THEN h.res # Faulted
       ELSE FreeList_allocate_scan(LinkedList_cursor_mut(f.s), f.last_used,
                FreeList_pad_size(size), 0, VisitBound(f.s)).res # Faulted

\* free(offset, size) on f returns within VisitBound rounds of its loop.
FreeEnds(f, offset, size) ==
    FreeList_free_loop(LinkedList_cursor_mut(f.s), f.last_used, offset,
        FreeList_pad_size(size), VisitBound(f.s)).res # Faulted

\* A forward and a reverse iteration of s end after len() values.
IterationsEnd(s) ==
    LET f == LinkedList_iter_mut(s)
        b == LinkedList_iter_mut_reverse(s)
    IN /\ f.ok /\ Len(f.seq) = LinkedList_len(s)
       /\ b.ok /\ Len(b.seq) = LinkedList_len(s)

\* C40: every allocate and free call returns after visiting each Range of
\* the free list at most once, and a forward and a reverse iteration of the
\* list end after yielding exactly len() values.
C40_CallsAndIterationsEnd ==
    ~fault =>
        /\ IterationsEnd(Cur)
        /\ fl_cap > 0 =>
              /\ \A size \in Sizes(fl_cap) : AllocateEnds(ThisFreeList, size)
              /\ \A a \in FreeArgs : FreeEnds(ThisFreeList, a[1], a[2])

============================================================================
